---- MODULE Spec2Model ----
(***************************************************************************)
(* lord-drawquaad: a Context that owns two shaders, a program, a vertex    *)
(* array and a vertex buffer, and draws one textured full-viewport quad.   *)
(*                                                                         *)
(* The library is a fixed sequence of OpenGL calls.  The model keeps the   *)
(* part of the OpenGL 3.3 core state machine those calls read and write    *)
(* (object tables, binding points, deferred deletion of objects in use)    *)
(* and translates new / draw / drop call by call over it.                  *)
(***************************************************************************)
EXTENDS Integers, Sequences, FiniteSets, TLC

\* ------------------------------------------------------------------ bounds
\* Context values the caller may hold at the same time.
MaxContexts == 2
\* Texture objects the caller owns (names 1..NumTextures).
NumTextures == 2

\* Half the side of the grid of sample points laid over the clip rectangle.
GridHalf == 2

\* ------------------------------------------------------- program constants
\* mem::size_of::<f32>()
SizeOfF32 == 4
\* struct Vertex { x, y, u, v: f32 }, #[repr(C)]
FloatsPerVertex == 4
SizeOfVertex == FloatsPerVertex * SizeOfF32
\* Mutant: the corners in perimeter order (a fan's order, not a strip's).
VERTICES_Perimeter ==
  << [x |-> -1, y |->  1, u |-> 0, v |-> 0],
     [x |->  1, y |->  1, u |-> 1, v |-> 0],
     [x |->  1, y |-> -1, u |-> 1, v |-> 1],
     [x |-> -1, y |-> -1, u |-> 0, v |-> 1] >>

\* static VERTICES: [Vertex; 4]
VERTICES ==
  << [x |-> -1, y |->  1, u |-> 0, v |-> 0],
     [x |->  1, y |->  1, u |-> 1, v |-> 0],
     [x |-> -1, y |-> -1, u |-> 0, v |-> 1],
     [x |->  1, y |-> -1, u |-> 1, v |-> 1] >>
\* gl::TEXTURE0 is texture unit 0; the sampler uniform holds a unit index.
TEXTURE0 == 0
\* `location as GLuint`: a GLint reinterpreted as an unsigned 32-bit index, so
\* -1 (the location of an inactive name) becomes 2^32 - 1.  The model's
\* integers end at 2^31 - 1: that value stands for every GLuint above it.
AsGLuint(i) == IF i >= 0 THEN i ELSE 2147483647

\* ------------------------------------------------------------- name spaces
TexNames     == 1 .. NumTextures
\* Texture units: TEXTURE0 and one more.
Units        == {TEXTURE0, TEXTURE0 + 1}
\* The attribute slots the linker assigns aPosition and aTexCoord to, in
\* either order (the shaders give no layout(location)).
AttrIdx      == {0, 1}
\* Name 1 of each kind belongs to the caller's own rendering code.  A dropped
\* context's program and shaders can stay allocated while the program is
\* current, so one more set of names is needed than there are contexts.
ProgramNames == 1 .. (MaxContexts + 2)
ShaderNames  == 1 .. (2 * (MaxContexts + 1))
VaoNames     == 1 .. (MaxContexts + 1)
BufNames     == 1 .. (MaxContexts + 1)
CallerProgram == 1
CallerVao     == 1
CallerBuffer  == 1
\* The texture unit the caller's program samples, and the texture it renders.
CallerUnit    == TEXTURE0 + 1
CallerTexture == 1

\* ------------------------------------------------------- vertices in memory
\* The f32 fields of one Vertex, in declaration order (#[repr(C)]): x and y at
\* bytes 0 and 4, u and v at bytes 8 and 12.
VertexFloats(vx) == << vx.x, vx.y, vx.u, vx.v >>

\* VERTICES.as_ptr(): the array's memory, as the f32 values it holds in order.
VerticesFloats ==
  VertexFloats(VERTICES[1]) \o VertexFloats(VERTICES[2]) \o
  VertexFloats(VERTICES[3]) \o VertexFloats(VERTICES[4])

\* ---------------------------------------------------------------- GL state
DefaultAttr == [enabled |-> FALSE, buffer |-> 0, size |-> 4, stride |-> 0, offset |-> 0]

VARIABLES
  gl,         \* the graphics context's state
  ctx,        \* the Context values the caller holds
  lastDraw,   \* the draw call made by the last step, if it was a draw
  atNew,      \* by program name, what a held Context's objects held when new() returned
  driver      \* what the driver's compiler and linker do with the embedded shaders

vars == << gl, ctx, lastDraw, atNew, driver >>

\* ------------------------------------------------------------ GL functions
\* Each takes the GL state g and returns the state after the call.  A call
\* that raises a GL error leaves the state as it was.

\* A program stops existing: its name is free and its shaders are detached;
\* a detached shader that was flagged for deletion goes with it.  Nothing of
\* a deleted object is kept.
ReleaseProgram(g, p) ==
  LET att == g.attached[p]
      elsewhere(s) == \E q \in ProgramNames \ {p} :
                         g.progSt[q] # "free" /\ s \in g.attached[q]
      gone(s) == s \in att /\ g.shaderSt[s] = "flagged" /\ ~elsewhere(s)
  IN [g EXCEPT !.progSt[p] = "free",
               !.attached[p] = {},
               !.linked[p] = FALSE,
               !.posLoc[p] = -1, !.texLoc[p] = -1, !.uniLoc[p] = -1,
               !.sampler[p] = 0,
               !.shaderSt = [s \in ShaderNames |->
                  IF gone(s) THEN "free" ELSE g.shaderSt[s]],
               !.compiled = [s \in ShaderNames |->
                  IF gone(s) THEN FALSE ELSE g.compiled[s]]]

CreateShader(g, name) ==
  [g EXCEPT !.shaderSt[name] = "live", !.compiled[name] = FALSE]

\* ok: whether the driver's compiler accepts the source.
CompileShader(g, s, ok) == [g EXCEPT !.compiled[s] = ok]

CreateProgram(g, name) ==
  [g EXCEPT !.progSt[name] = "live", !.attached[name] = {}, !.linked[name] = FALSE,
            !.posLoc[name] = -1, !.texLoc[name] = -1, !.uniLoc[name] = -1,
            !.sampler[name] = 0]

AttachShader(g, p, s) == [g EXCEPT !.attached[p] = @ \cup {s}]

\* Linking succeeds only over compiled shaders (and when the linker itself
\* succeeds); it assigns the attribute and uniform locations (loc).
LinkProgram(g, p, ok, loc) ==
  IF ok /\ \A s \in g.attached[p] : g.compiled[s]
  THEN [g EXCEPT !.linked[p] = TRUE, !.posLoc[p] = loc.pos, !.texLoc[p] = loc.tex,
                 !.uniLoc[p] = loc.uni, !.sampler[p] = 0]
  ELSE [g EXCEPT !.linked[p] = FALSE]

\* INVALID_VALUE for a name that is no program, INVALID_OPERATION for a
\* program that is not linked.  A program flagged for deletion is deleted
\* when it stops being current.
UseProgram(g, p) ==
  IF p # 0 /\ (g.progSt[p] = "free" \/ ~g.linked[p]) THEN g
  ELSE LET old == g.curProgram
           g1  == [g EXCEPT !.curProgram = p]
       IN IF old # 0 /\ old # p /\ g.progSt[old] = "flagged"
          THEN ReleaseProgram(g1, old) ELSE g1

GetAttribLocation(g, p, which) ==
  IF ~g.linked[p] THEN -1 ELSE IF which = "aPosition" THEN g.posLoc[p] ELSE g.texLoc[p]

GetUniformLocation(g, p) == IF ~g.linked[p] THEN -1 ELSE g.uniLoc[p]

GenVertexArrays(g, name) ==
  [g EXCEPT !.vaoSt[name] = "live", !.vaoAttr[name] = [i \in AttrIdx |-> DefaultAttr]]

BindVertexArray(g, v) ==
  IF v # 0 /\ g.vaoSt[v] = "free" THEN g ELSE [g EXCEPT !.boundVAO = v]

GenBuffers(g, name) ==
  [g EXCEPT !.bufSt[name] = "live", !.bufData[name] = << >>, !.bufWrites[name] = 0]

BindBuffer(g, b) ==
  IF b # 0 /\ g.bufSt[b] # "live" THEN g ELSE [g EXCEPT !.boundBuf = b]

\* glBufferData(ARRAY_BUFFER, size, data, STATIC_DRAW): the first `size`
\* bytes at `data` become the bound buffer's store, kept as the f32 values
\* that fit in them.
BufferData(g, size, data) ==
  IF g.boundBuf = 0 THEN g
  ELSE [g EXCEPT !.bufData[g.boundBuf] = SubSeq(data, 1, size \div SizeOfF32),
                 !.bufWrites[g.boundBuf] = @ + 1]

\* Records (size, stride, offset, ARRAY_BUFFER binding) in the bound vertex
\* array.  INVALID_VALUE for an index that is no attribute slot,
\* INVALID_OPERATION without a bound vertex array.
VertexAttribPointer(g, index, size, stride, offset) ==
  IF index \notin AttrIdx \/ g.boundVAO = 0 THEN g
  ELSE [g EXCEPT !.vaoAttr[g.boundVAO][index] =
          [enabled |-> @.enabled, buffer |-> g.boundBuf, size |-> size,
           stride |-> stride, offset |-> offset]]

EnableVertexAttribArray(g, index) ==
  IF index \notin AttrIdx \/ g.boundVAO = 0 THEN g
  ELSE [g EXCEPT !.vaoAttr[g.boundVAO][index].enabled = TRUE]

ActiveTexture(g, unit) == [g EXCEPT !.activeUnit = unit]

\* glBindTexture(TEXTURE_RECTANGLE, t): t names a rectangle texture.
BindTexture(g, t) == [g EXCEPT !.texBinding[g.activeUnit] = t]

\* Writes the sampler uniform of the current program.  Location -1 is
\* ignored; another location that is not the uniform's is INVALID_OPERATION.
Uniform1i(g, location, value) ==
  IF g.curProgram = 0 \/ location = -1 THEN g
  ELSE IF location # g.uniLoc[g.curProgram] THEN g
  ELSE [g EXCEPT !.sampler[g.curProgram] = value]

\* A buffer flagged for deletion stops existing once no vertex array refers to it.
SweepBuffers(g) ==
  LET referenced(b) == \E v \in VaoNames : g.vaoSt[v] = "live" /\
                          \E i \in AttrIdx : g.vaoAttr[v][i].buffer = b
      gone(b) == g.bufSt[b] = "flagged" /\ ~referenced(b)
  IN [g EXCEPT !.bufSt = [b \in BufNames |-> IF gone(b) THEN "free" ELSE g.bufSt[b]],
               !.bufData = [b \in BufNames |-> IF gone(b) THEN << >> ELSE g.bufData[b]],
               !.bufWrites = [b \in BufNames |-> IF gone(b) THEN 0 ELSE g.bufWrites[b]]]

\* A name that is no live object of the kind (never created, or already
\* handed to a delete call) is recorded in badDelete.  Name 0 is ignored.
DeleteBuffers(g, b) ==
  IF b = 0 THEN g
  ELSE IF g.bufSt[b] # "live" THEN [g EXCEPT !.badDelete = TRUE]
  ELSE LET g1 == [g EXCEPT !.boundBuf = IF @ = b THEN 0 ELSE @,
                           !.bufSt[b] = "flagged"]
           g2 == IF g1.boundVAO = 0 THEN g1
                 ELSE [g1 EXCEPT !.vaoAttr[g1.boundVAO] = [i \in AttrIdx |->
                        IF @[i].buffer = b THEN [@[i] EXCEPT !.buffer = 0] ELSE @[i]]]
       IN SweepBuffers(g2)

DeleteVertexArrays(g, v) ==
  IF v = 0 THEN g
  ELSE IF g.vaoSt[v] # "live" THEN [g EXCEPT !.badDelete = TRUE]
  ELSE SweepBuffers([g EXCEPT !.boundVAO = IF @ = v THEN 0 ELSE @,
                              !.vaoSt[v] = "free",
                              !.vaoAttr[v] = [i \in AttrIdx |-> DefaultAttr]])

\* The current program is only flagged; it is deleted when it stops being current.
DeleteProgram(g, p) ==
  IF p = 0 THEN g
  ELSE IF g.progSt[p] # "live" THEN [g EXCEPT !.badDelete = TRUE]
  ELSE IF g.curProgram = p THEN [g EXCEPT !.progSt[p] = "flagged"]
  ELSE ReleaseProgram(g, p)

\* A shader attached to a program is only flagged; it is deleted when detached.
DeleteShader(g, s) ==
  IF s = 0 THEN g
  ELSE IF g.shaderSt[s] # "live" THEN [g EXCEPT !.badDelete = TRUE]
  ELSE IF \E p \in ProgramNames : g.progSt[p] # "free" /\ s \in g.attached[p]
       THEN [g EXCEPT !.shaderSt[s] = "flagged"]
       ELSE [g EXCEPT !.shaderSt[s] = "free", !.compiled[s] = FALSE]

\* The byte size of a buffer's store.
BufferSize(g, b) == Len(g.bufData[b]) * SizeOfF32

\* What attribute slot `index` of vertex array v yields for vertex i: `size`
\* floats read at byte offset + i * stride of the recorded buffer.  << >> when
\* the array is not enabled or has no buffer (nothing is read from a buffer).
\* A read that is not aligned to a float yields none of the stored values (2).
FetchAttrib(g, v, index, i) ==
  IF v = 0 \/ index \notin AttrIdx THEN << >>
  ELSE LET a    == g.vaoAttr[v][index]
           from == a.offset + i * a.stride
       IN IF ~a.enabled \/ a.buffer = 0 THEN << >>
          ELSE IF from + a.size * SizeOfF32 > BufferSize(g, a.buffer)
               THEN << "out_of_bounds" >>
          ELSE [k \in 1 .. a.size |->
                  IF from % SizeOfF32 = 0
                  THEN g.bufData[a.buffer][from \div SizeOfF32 + k]
                  ELSE 2]

\* glDrawArrays(mode, first, count): what the draw invocation reads.
DrawArrays(g, mode, first, count) ==
  LET p == g.curProgram
      usable == p # 0 /\ g.linked[p]
      unit == IF usable THEN g.sampler[p] ELSE -1
  IN [mode        |-> mode,
      program     |-> p,
      vertexArray |-> g.boundVAO,
      arrayBuffer |-> g.boundBuf,
      unit        |-> unit,
      texture     |-> IF usable THEN g.texBinding[unit] ELSE -1,
      position    |-> [k \in 1 .. count |->
                         IF usable THEN FetchAttrib(g, g.boundVAO, g.posLoc[p], first + k - 1)
                         ELSE << >>],
      texCoord    |-> [k \in 1 .. count |->
                         IF usable THEN FetchAttrib(g, g.boundVAO, g.texLoc[p], first + k - 1)
                         ELSE << >>]]


\* ------------------------------------------------------------------ Context
\* pub struct Context { ... }
Context(vs, fs, prog, uni, vao, buf) ==
  [vertex_shader |-> vs, fragment_shader |-> fs, program |-> prog,
   texture_uniform |-> uni, vertex_array |-> vao, vertex_buffer |-> buf]

\* The name a Create*/Gen* call returns: the lowest unused one, so that a name
\* is handed out again as soon as its object is gone.
Lowest(S) == CHOOSE x \in S : \A y \in S : x <= y

FreeShaders(g)  == {s \in ShaderNames : g.shaderSt[s] = "free"}
FreePrograms(g) == {p \in ProgramNames : g.progSt[p] = "free"}
FreeVaos(g)     == {v \in VaoNames : g.vaoSt[v] = "free"}
FreeBuffers(g)  == {b \in BufNames : g.bufSt[b] = "free"}

\* A driver compiles and links the same source the same way every time: whether
\* it accepts each embedded shader and the link, and the locations its linker
\* assigns.
Drivers ==
  { d \in [vsOk : BOOLEAN, fsOk : BOOLEAN, linkOk : BOOLEAN,
           loc : [pos : AttrIdx, tex : AttrIdx, uni : {0}]] : d.loc.pos # d.loc.tex }

\* The drivers the library is written for: "OpenGL 3.3+", where the
\* #version 330 shaders compile and link.
ConformingDrivers == { d \in Drivers : d.vsOk /\ d.fsOk /\ d.linkOk }

\* What the driver decides during one Context::new(): the names it returns and,
\* as drv says, the compile and link results and locations.
DriverChoices(g, drv) ==
  [vs |-> Lowest(FreeShaders(g)),
   fs |-> Lowest(FreeShaders(g) \ {Lowest(FreeShaders(g))}),
   prog |-> Lowest(FreePrograms(g)),
   vao |-> Lowest(FreeVaos(g)),
   buf |-> Lowest(FreeBuffers(g)),
   vsOk |-> drv.vsOk, fsOk |-> drv.fsOk, linkOk |-> drv.linkOk, loc |-> drv.loc]

\* Context::new(), first part: the shaders and the program, made current.
NewProgram(g, d) ==
  LET g1 == CreateShader(g, d.vs)
      g2 == CreateShader(g1, d.fs)
      \* ShaderSource: the embedded VERTEX_SHADER / FRAGMENT_SHADER text
      g3 == CompileShader(g2, d.vs, d.vsOk)
      g4 == CompileShader(g3, d.fs, d.fsOk)
      g5 == CreateProgram(g4, d.prog)
      g6 == AttachShader(g5, d.prog, d.vs)
      g7 == AttachShader(g6, d.prog, d.fs)
      g8 == LinkProgram(g7, d.prog, d.linkOk, d.loc)
  IN UseProgram(g8, d.prog)

\* Mutant: the new vertex array is generated but not bound.
NewVertexData_NoBindVertexArray(g, d) ==
  LET g1 == GenVertexArrays(g, d.vao)
      g3 == GenBuffers(g1, d.buf)
      g4 == BindBuffer(g3, d.buf)
  IN BufferData(g4, SizeOfVertex * 4, VerticesFloats)

\* Context::new(), second part: the vertex array, and the buffer with VERTICES.
NewVertexData(g, d) ==
  LET g1 == GenVertexArrays(g, d.vao)
      g2 == BindVertexArray(g1, d.vao)
      g3 == GenBuffers(g2, d.buf)
      g4 == BindBuffer(g3, d.buf)
  IN BufferData(g4, SizeOfVertex * 4, VerticesFloats)

\* Mutant: the texture coordinate's offset is 2 bytes, not 2 floats.
NewLayout_ByteOffset(g, position_attribute, tex_coord_attribute) ==
  LET g1 == VertexAttribPointer(g, AsGLuint(position_attribute), 2,
                                SizeOfVertex, SizeOfF32 * 0)
      g2 == VertexAttribPointer(g1, AsGLuint(tex_coord_attribute), 2,
                                SizeOfVertex, 2)
      g3 == EnableVertexAttribArray(g2, AsGLuint(position_attribute))
  IN EnableVertexAttribArray(g3, AsGLuint(tex_coord_attribute))

\* Context::new(), third part: the two attribute pointers, enabled.
NewLayout(g, position_attribute, tex_coord_attribute) ==
  LET g1 == VertexAttribPointer(g, AsGLuint(position_attribute), 2,
                                SizeOfVertex, SizeOfF32 * 0)
      g2 == VertexAttribPointer(g1, AsGLuint(tex_coord_attribute), 2,
                                SizeOfVertex, SizeOfF32 * 2)
      g3 == EnableVertexAttribArray(g2, AsGLuint(position_attribute))
  IN EnableVertexAttribArray(g3, AsGLuint(tex_coord_attribute))

\* Context::new()
new(g, d) ==
  LET g1 == NewProgram(g, d)
      position_attribute  == GetAttribLocation(g1, d.prog, "aPosition")
      tex_coord_attribute == GetAttribLocation(g1, d.prog, "aTexCoord")
      texture_uniform     == GetUniformLocation(g1, d.prog)
      g2 == NewVertexData(g1, d)
      g3 == NewLayout(g2, position_attribute, tex_coord_attribute)
  IN [gl |-> g3,
      context |-> Context(d.vs, d.fs, d.prog, texture_uniform, d.vao, d.buf)]

\* glTexParameteri(TEXTURE_RECTANGLE, TEXTURE_MIN_FILTER, value): on the
\* texture bound to the active unit.  The library never calls it.
TexParameteri(g, value) ==
  LET t == g.texBinding[g.activeUnit]
  IN IF t = 0 THEN g ELSE [g EXCEPT !.tex[t].filter = value]

\* Mutant: the texture is bound to whatever unit is active.
draw_NoActiveTexture(g, self, texture) ==
  LET g1 == UseProgram(g, self.program)
      g2 == BindVertexArray(g1, self.vertex_array)
      g3 == BindBuffer(g2, self.vertex_buffer)
      g5 == BindTexture(g3, texture)
      g6 == Uniform1i(g5, self.texture_uniform, 0)
  IN [gl |-> g6, call |-> DrawArrays(g6, "TRIANGLE_STRIP", 0, 4)]

\* Mutant: the sampler uniform is left as it is.
draw_NoUniform1i(g, self, texture) ==
  LET g1 == UseProgram(g, self.program)
      g2 == BindVertexArray(g1, self.vertex_array)
      g3 == BindBuffer(g2, self.vertex_buffer)
      g4 == ActiveTexture(g3, TEXTURE0)
      g5 == BindTexture(g4, texture)
  IN [gl |-> g5, call |-> DrawArrays(g5, "TRIANGLE_STRIP", 0, 4)]

\* Mutant: draw gives the texture a default filter.
draw_SetsFilter(g, self, texture) ==
  LET g1 == UseProgram(g, self.program)
      g2 == BindVertexArray(g1, self.vertex_array)
      g3 == BindBuffer(g2, self.vertex_buffer)
      g4 == ActiveTexture(g3, TEXTURE0)
      g5 == TexParameteri(BindTexture(g4, texture), "NEAREST")
      g6 == Uniform1i(g5, self.texture_uniform, 0)
  IN [gl |-> g6, call |-> DrawArrays(g6, "TRIANGLE_STRIP", 0, 4)]

\* Mutant: draw uploads the vertices again.
draw_Reuploads(g, self, texture) ==
  LET g1 == UseProgram(g, self.program)
      g2 == BindVertexArray(g1, self.vertex_array)
      g3 == BufferData(BindBuffer(g2, self.vertex_buffer), SizeOfVertex * 4, VerticesFloats)
      g4 == ActiveTexture(g3, TEXTURE0)
      g5 == BindTexture(g4, texture)
      g6 == Uniform1i(g5, self.texture_uniform, 0)
  IN [gl |-> g6, call |-> DrawArrays(g6, "TRIANGLE_STRIP", 0, 4)]

\* Context::draw(&self, texture): the state it leaves and the draw it issues.
draw(g, self, texture) ==
  LET g1 == UseProgram(g, self.program)
      g2 == BindVertexArray(g1, self.vertex_array)
      g3 == BindBuffer(g2, self.vertex_buffer)
      g4 == ActiveTexture(g3, TEXTURE0)
      g5 == BindTexture(g4, texture)
      g6 == Uniform1i(g5, self.texture_uniform, 0)
  IN [gl |-> g6, call |-> DrawArrays(g6, "TRIANGLE_STRIP", 0, 4)]

\* Mutant: the fragment shader is deleted twice, the vertex shader never.
drop_FragmentShaderTwice(g, self) ==
  LET g1 == DeleteBuffers(g, self.vertex_buffer)
      g2 == DeleteVertexArrays(g1, self.vertex_array)
      g3 == DeleteProgram(g2, self.program)
      g4 == DeleteShader(g3, self.fragment_shader)
  IN DeleteShader(g4, self.fragment_shader)

\* impl Drop for Context
drop(g, self) ==
  LET g1 == DeleteBuffers(g, self.vertex_buffer)
      g2 == DeleteVertexArrays(g1, self.vertex_array)
      g3 == DeleteProgram(g2, self.program)
      g4 == DeleteShader(g3, self.fragment_shader)
  IN DeleteShader(g4, self.vertex_shader)

\* ------------------------------------------------------------ history, ghosts
NoDraw == [texture |-> 0]
Drawn  == lastDraw.texture # 0

\* Whether the step from g to g2 changed every binding a draw reads: program,
\* vertex array, array buffer, active unit, the texture of the unit sampled,
\* and the sampler uniform of the program it made current.
Rebinds(g, g2) ==
  /\ g.curProgram # g2.curProgram
  /\ g.boundVAO # g2.boundVAO
  /\ g.boundBuf # g2.boundBuf
  /\ g.activeUnit # g2.activeUnit
  /\ g.texBinding[TEXTURE0] # g2.texBinding[TEXTURE0]
  /\ g2.curProgram # 0 /\ g.sampler[g2.curProgram] # g2.sampler[g2.curProgram]

\* What a Context's objects hold.
Config(g, cx) ==
  [context  |-> cx,
   data     |-> g.bufData[cx.vertex_buffer],
   writes   |-> g.bufWrites[cx.vertex_buffer],
   layout   |-> g.vaoAttr[cx.vertex_array],
   attached |-> g.attached[cx.program],
   linked   |-> g.linked[cx.program]]

NoConfig == [writes |-> 0]

\* ---------------------------------------------------------------- the caller
\* The caller's textures: created, filled and given filters before any draw.
InitTex == [t \in TexNames |-> [allocated |-> TRUE, image |-> t, filter |-> "LINEAR"]]

\* The graphics context made current before Context::new(): the caller's own
\* program, vertex array and buffer exist, nothing is bound.
InitGL ==
  [shaderSt  |-> [s \in ShaderNames |-> "free"],
   compiled  |-> [s \in ShaderNames |-> FALSE],
   progSt    |-> [p \in ProgramNames |-> IF p = CallerProgram THEN "live" ELSE "free"],
   attached  |-> [p \in ProgramNames |-> {}],
   linked    |-> [p \in ProgramNames |-> p = CallerProgram],
   posLoc    |-> [p \in ProgramNames |-> IF p = CallerProgram THEN 0 ELSE -1],
   texLoc    |-> [p \in ProgramNames |-> IF p = CallerProgram THEN 1 ELSE -1],
   uniLoc    |-> [p \in ProgramNames |-> IF p = CallerProgram THEN 0 ELSE -1],
   sampler   |-> [p \in ProgramNames |-> IF p = CallerProgram THEN CallerUnit ELSE 0],
   vaoSt     |-> [v \in VaoNames |-> IF v = CallerVao THEN "live" ELSE "free"],
   vaoAttr   |-> [v \in VaoNames |-> [i \in AttrIdx |-> DefaultAttr]],
   bufSt     |-> [b \in BufNames |-> IF b = CallerBuffer THEN "live" ELSE "free"],
   bufData   |-> [b \in BufNames |-> << >>],
   bufWrites |-> [b \in BufNames |-> 0],
   curProgram |-> 0, boundVAO |-> 0, boundBuf |-> 0, activeUnit |-> TEXTURE0,
   texBinding |-> [u \in Units |-> 0],
   tex       |-> InitTex,
   badDelete |-> FALSE]

Init ==
  /\ gl = InitGL
  /\ ctx = {}
  /\ lastDraw = NoDraw
  /\ atNew = [p \in ProgramNames |-> NoConfig]
  /\ driver \in ConformingDrivers

\* A graphics context whose driver may reject a shader or the link.
InitAnyDriver ==
  /\ gl = InitGL
  /\ ctx = {}
  /\ lastDraw = NoDraw
  /\ atNew = [p \in ProgramNames |-> NoConfig]
  /\ driver \in Drivers

\* let context = Context::new();
New ==
  /\ Cardinality(ctx) < MaxContexts
  /\ LET r == new(gl, DriverChoices(gl, driver))
     IN /\ gl' = r.gl
        /\ ctx' = ctx \cup {r.context}
        /\ atNew' = [atNew EXCEPT ![r.context.program] = Config(r.gl, r.context)]
  /\ lastDraw' = NoDraw
  /\ UNCHANGED driver

\* context.draw(texture);
Draw(self, t) ==
  /\ self \in ctx
  /\ LET r == draw(gl, self, t)
     IN /\ gl' = r.gl
        /\ lastDraw' = [self |-> self, texture |-> t, prev |-> lastDraw.texture,
                        rebound |-> Rebinds(gl, r.gl), call |-> r.call]
  /\ UNCHANGED << ctx, atNew, driver >>

\* The Context value goes out of scope: drop runs once, on a value the caller held.
Drop(self) ==
  /\ self \in ctx
  /\ gl' = drop(gl, self)
  /\ ctx' = ctx \ {self}
  /\ atNew' = [atNew EXCEPT ![self.program] = NoConfig]
  /\ lastDraw' = NoDraw
  /\ UNCHANGED driver

\* The caller's own GL use between calls to the library.
CallerStep(g2) ==
  /\ gl' = g2
  /\ lastDraw' = NoDraw
  /\ UNCHANGED << ctx, atNew, driver >>

\* The caller renders with its own program, vertex array and buffer, and
\* texture t on the unit its program samples.
CallerRender(t) ==
  LET g1 == UseProgram(gl, CallerProgram)
      g2 == BindVertexArray(g1, CallerVao)
      g3 == BindBuffer(g2, CallerBuffer)
      g4 == ActiveTexture(g3, CallerUnit)
  IN CallerStep(BindTexture(g4, t))

\* The caller points the sampler of whatever program is current at its unit
\* (a write meant for its own program, which already holds that value).
CallerUniform1i ==
  /\ gl.curProgram # 0
  /\ CallerStep(Uniform1i(gl, gl.uniLoc[gl.curProgram], CallerUnit))

Next ==
  \/ New
  \/ \E self \in ctx, t \in TexNames : Draw(self, t)
  \/ \E self \in ctx : Drop(self)
  \/ CallerRender(CallerTexture)
  \/ CallerUniform1i

\* On a driver of the kind the library is written for.
Spec == Init /\ [][Next]_vars

\* On any driver: compiling or linking may fail, and new() does not look.
SpecAnyDriver == InitAnyDriver /\ [][Next]_vars

\* ================================================================== claims

\* The GPU objects that exist (flagged for deletion or not), by kind.
LiveObjects(g) ==
  [shaders  |-> {s \in ShaderNames : g.shaderSt[s] # "free"},
   programs |-> {p \in ProgramNames : g.progSt[p] # "free"},
   vaos     |-> {v \in VaoNames : g.vaoSt[v] # "free"},
   buffers  |-> {b \in BufNames : g.bufSt[b] # "free"}]

\* C1: whenever every Context created so far has been dropped, the GPU
\* objects that exist are exactly those that existed before the first new():
\* nothing new() allocated is left.
C1_NoLeak == (ctx = {}) => LiveObjects(gl) = LiveObjects(InitGL)

\* C2: the draw invocation of every draw(texture) samples texture unit 0, and
\* the texture it finds there is the one passed to this call, also when the
\* step before was a draw of another texture.
C2_DrawSamplesArgument ==
  Drawn => /\ lastDraw.call.program = lastDraw.self.program
           /\ lastDraw.call.unit = TEXTURE0
           /\ lastDraw.call.texture = lastDraw.texture
           /\ gl.texBinding[lastDraw.call.unit] = lastDraw.texture

\* A draw of one texture directly after a draw of another.
C2_Witness ==
  /\ Drawn
  /\ lastDraw.prev # 0
  /\ lastDraw.prev # lastDraw.texture
  /\ lastDraw.call.texture = lastDraw.texture

\* The handles a Context owns, by kind.
Owned(self) ==
  [shaders  |-> {self.vertex_shader, self.fragment_shader},
   programs |-> {self.program},
   vaos     |-> {self.vertex_array},
   buffers  |-> {self.vertex_buffer}]

\* C5: no delete call is ever made on a name that is not a live object (so
\* none is deleted twice); what makes this so is that every handle of a held
\* Context is a live object not yet handed to a delete call, that no two
\* Contexts (nor a Context and the caller) share a handle, and that drop runs
\* once per Context.
C5_NoDoubleFree ==
  /\ ~gl.badDelete
  /\ \A self \in ctx :
       /\ self.vertex_shader # self.fragment_shader
       /\ \A s \in Owned(self).shaders : gl.shaderSt[s] = "live"
       /\ gl.progSt[self.program] = "live" /\ self.program # CallerProgram
       /\ gl.vaoSt[self.vertex_array] = "live" /\ self.vertex_array # CallerVao
       /\ gl.bufSt[self.vertex_buffer] = "live" /\ self.vertex_buffer # CallerBuffer
  /\ \A a, b \in ctx :
       a # b => /\ Owned(a).shaders \cap Owned(b).shaders = {}
                /\ a.program # b.program
                /\ a.vertex_array # b.vertex_array
                /\ a.vertex_buffer # b.vertex_buffer

\* A Context has been dropped (its program, still current, is flagged for
\* deletion) while another is held.
C5_Witness ==
  /\ ~gl.badDelete
  /\ \E p \in ProgramNames : gl.progSt[p] = "flagged"
  /\ ctx # {}

\* C7: new, draw and drop never create, change or delete a texture: every
\* texture of the caller stays allocated, with the image and the parameters
\* the caller gave it.
C7_TexturesBorrowed == gl.tex = InitTex

\* A texture has been drawn (it is still bound to unit 0) and every Context
\* has since been dropped.
C7_Witness ==
  /\ ctx = {}
  /\ gl.texBinding[TEXTURE0] # 0
  /\ gl.tex[gl.texBinding[TEXTURE0]] = InitTex[gl.texBinding[TEXTURE0]]

\* The starting binding states compared for one draw.  From what g holds:
\* nothing bound at all; every binding the caller's; and each binding a draw
\* reads changed alone (program, vertex array, array buffer, active unit,
\* texture on unit 0, sampler value of the Context's program).
StartingStates(g, self) ==
  { [g EXCEPT !.curProgram = 0, !.boundVAO = 0, !.boundBuf = 0,
              !.texBinding = [u \in Units |-> 0]],
    [g EXCEPT !.curProgram = CallerProgram, !.boundVAO = CallerVao,
              !.boundBuf = CallerBuffer, !.activeUnit = CallerUnit,
              !.texBinding[TEXTURE0] = 0, !.sampler[self.program] = CallerUnit],
    [g EXCEPT !.curProgram = CallerProgram],
    [g EXCEPT !.boundVAO = CallerVao],
    [g EXCEPT !.boundBuf = CallerBuffer],
    [g EXCEPT !.activeUnit = CallerUnit],
    [g EXCEPT !.sampler[self.program] = CallerUnit] }
  \cup { [g EXCEPT !.texBinding[TEXTURE0] = t] : t \in TexNames }
  \cup { [g EXCEPT !.curProgram = other.program, !.boundVAO = other.vertex_array,
                   !.boundBuf = other.vertex_buffer] : other \in ctx }

\* C3: the draw invocation a draw issues does not depend on the binding state
\* it starts from: started from another active program, bound vertex array,
\* bound array buffer, active unit, texture on unit 0 or sampler value (the
\* caller's, another Context's, or none), the same Context and texture give
\* the same invocation (program, vertex array, array buffer, unit, texture,
\* vertices).
C3_DrawIgnoresBindings ==
  Drawn => \A g \in StartingStates(gl, lastDraw.self) :
             draw(g, lastDraw.self, lastDraw.texture).call = lastDraw.call

\* A draw that started with every binding it reads set to something else.
C3_Witness == Drawn /\ lastDraw.rebound

\* What is true of a usable Context: both shaders compiled, the program
\* linked with its locations resolved, the vertex array configured and the
\* buffer filled.
Usable(g, self) ==
  /\ g.compiled[self.vertex_shader] /\ g.compiled[self.fragment_shader]
  /\ g.linked[self.program]
  /\ self.texture_uniform # -1
  /\ g.posLoc[self.program] # -1 /\ g.texLoc[self.program] # -1
  /\ \E i \in AttrIdx : g.vaoAttr[self.vertex_array][i].enabled
  /\ g.bufData[self.vertex_buffer] = VerticesFloats

\* C4: every Context new() returns is usable, whatever the compiler and the
\* linker answered.
C4_AlwaysUsable == \A self \in ctx : Usable(gl, self)

\* ------------------------------------------------------------ C6: geometry
\* Twice the signed area of (a, b, p): which side of the line a-b p is on.
Edge(a, b, p) == (b[1] - a[1]) * (p[2] - a[2]) - (b[2] - a[2]) * (p[1] - a[1])

\* p is in the closed triangle a b c.
InTriangle(a, b, c, p) ==
  \/ Edge(a, b, p) >= 0 /\ Edge(b, c, p) >= 0 /\ Edge(c, a, p) >= 0
  \/ Edge(a, b, p) <= 0 /\ Edge(b, c, p) <= 0 /\ Edge(c, a, p) <= 0

\* Sample points of the clip rectangle, in units of 1/GridHalf.
Grid == (-GridHalf .. GridHalf) \X (-GridHalf .. GridHalf)
Scaled(v) == << v[1] * GridHalf, v[2] * GridHalf >>

\* A 4-vertex triangle strip: triangles (v1 v2 v3) and (v2 v3 v4), which
\* share the edge v2 v3.
StripTilesRectangle(pos) ==
  \A pt \in Grid :
    LET in1 == InTriangle(Scaled(pos[1]), Scaled(pos[2]), Scaled(pos[3]), pt)
        in2 == InTriangle(Scaled(pos[2]), Scaled(pos[3]), Scaled(pos[4]), pt)
    IN /\ in1 \/ in2
       /\ (in1 /\ in2) => Edge(Scaled(pos[2]), Scaled(pos[3]), pt) = 0

\* C6: the 4 vertices a draw reads are (-1,1), (1,1), (-1,-1), (1,-1) with
\* texture coordinates (0,0), (1,0), (0,1), (1,1), drawn as a triangle strip,
\* and the strip's two triangles cover every point of [-1,1] x [-1,1], a
\* point being in both only on their shared edge.
C6_QuadCoversClipRectangle ==
  Drawn => /\ lastDraw.call.mode = "TRIANGLE_STRIP"
           /\ lastDraw.call.position =
                << << -1, 1 >>, << 1, 1 >>, << -1, -1 >>, << 1, -1 >> >>
           /\ lastDraw.call.texCoord =
                << << 0, 0 >>, << 1, 0 >>, << 0, 1 >>, << 1, 1 >> >>
           /\ StripTilesRectangle(lastDraw.call.position)

\* A draw has read 4 vertices.
C6_Witness == Drawn /\ Len(lastDraw.call.position) = 4 /\ Len(lastDraw.call.position[4]) = 2

\* C8: in every Context's vertex array the position attribute reads 2 floats at
\* byte offset 0 and the texture coordinate 2 floats at byte offset 8, both
\* with stride 16, from the Context's buffer of 64 bytes; so vertex i yields
\* (VERTICES[i].x, VERTICES[i].y) and (VERTICES[i].u, VERTICES[i].v), and no
\* read ends outside the buffer.
C8_LayoutReadsVertices ==
  \A self \in ctx :
    LET pos == gl.vaoAttr[self.vertex_array][gl.posLoc[self.program]]
        tex == gl.vaoAttr[self.vertex_array][gl.texLoc[self.program]]
    IN /\ pos.enabled /\ pos.size = 2 /\ pos.offset = 0 /\ pos.stride = 16
       /\ tex.enabled /\ tex.size = 2 /\ tex.offset = 8 /\ tex.stride = 16
       /\ pos.buffer = self.vertex_buffer /\ tex.buffer = self.vertex_buffer
       /\ BufferSize(gl, self.vertex_buffer) = 64
       /\ \A i \in 0 .. 3 :
            /\ FetchAttrib(gl, self.vertex_array, gl.posLoc[self.program], i)
                 = << VERTICES[i + 1].x, VERTICES[i + 1].y >>
            /\ FetchAttrib(gl, self.vertex_array, gl.texLoc[self.program], i)
                 = << VERTICES[i + 1].u, VERTICES[i + 1].v >>
            /\ tex.offset + i * tex.stride + tex.size * SizeOfF32
                 <= BufferSize(gl, self.vertex_buffer)

\* A Context created on a driver that puts aTexCoord in slot 0.
C8_Witness ==
  \E self \in ctx : gl.texLoc[self.program] = 0 /\ gl.posLoc[self.program] = 1

\* C9: a held Context's buffer contents, the number of writes to the buffer
\* (one), its vertex layout, its program's attached shaders and link state,
\* and its handle fields are what they were when new() returned.
C9_NeverReconfigured ==
  \A self \in ctx :
    /\ Config(gl, self) = atNew[self.program]
    /\ gl.bufWrites[self.vertex_buffer] = 1

\* Two draws in a row have been made.
C9_Witness ==
  /\ Drawn
  /\ lastDraw.prev # 0
  /\ Config(gl, lastDraw.self) = atNew[lastDraw.self.program]

\* C10 (1): a held Context's layout is in its own vertex array and refers to
\* its own buffer.  (3): the draw invocation of a draw uses the Context's own
\* program, vertex array and buffer, all of them live.
C10_OwnObjects ==
  /\ \A self \in ctx : \A i \in AttrIdx :
       gl.vaoAttr[self.vertex_array][i].buffer = self.vertex_buffer
  /\ Drawn =>
       /\ lastDraw.self \in ctx
       /\ lastDraw.call.program = lastDraw.self.program
       /\ lastDraw.call.vertexArray = lastDraw.self.vertex_array
       /\ lastDraw.call.arrayBuffer = lastDraw.self.vertex_buffer
       /\ gl.progSt[lastDraw.call.program] = "live"
       /\ gl.vaoSt[lastDraw.call.vertexArray] = "live"
       /\ gl.bufSt[lastDraw.call.arrayBuffer] = "live"

\* C10 (2): a draw leaves the sampler uniform of every program but its own,
\* and the objects of every other held Context, as they were.
C10_DrawLeavesOthers ==
  (lastDraw'.texture # 0) =>
     /\ \A p \in ProgramNames \ {lastDraw'.self.program} :
          gl.progSt[p] = "live" => gl'.sampler[p] = gl.sampler[p]
     /\ \A other \in ctx \ {lastDraw'.self} : Config(gl', other) = Config(gl, other)

\* C10: Contexts on one graphics context do not disturb each other, in any
\* serialized interleaving of new, draw and drop: (1) and (3) hold in every
\* state and (2) of every draw.
C10_ContextsIndependent == [] C10_OwnObjects /\ [][C10_DrawLeavesOthers]_vars

\* A draw while another Context is held, whose program's sampler the caller
\* has changed (so that Context's program was current at some point before).
C10_Witness ==
  /\ Drawn
  /\ lastDraw.call.program = lastDraw.self.program
  /\ \E other \in ctx \ {lastDraw.self} : gl.sampler[other.program] = CallerUnit

====
